---------------------------- MODULE Spec2Model ----------------------------
(***************************************************************************)
(* Fortran call-graph tools: the scope-tracking scanner and matrix         *)
(* assembler (adjacency_matrix.py), the routine inventory extractor        *)
(* (check_object.py), the connectivity reordering (sort_matrix.py) and the *)
(* driver (main.py).                                                       *)
(*                                                                         *)
(* A logical line is a sequence of tokens.  A token is a maximal run of    *)
(* word characters (\w+), a run of whitespace (" "), or one punctuation    *)
(* character.  The regular expressions of the source are evaluated on      *)
(* these token sequences.                                                  *)
(***************************************************************************)
EXTENDS Integers, Sequences, FiniteSets, TLC

(***************************************************************************)
(* Bounds of the model.                                                    *)
(***************************************************************************)
MaxLines == 4      \* lines read by generate_fortran_matrix in one run
MaxInvLines == 3   \* lines read by scan_fortran_directory in one run
MaxApplications == 2   \* successive applications of reorder_by_sum
MaxMainLines == 2  \* lines of each file of the directory main is run on

(***************************************************************************)
(* Tokens.                                                                 *)
(***************************************************************************)
NonWord == {" ", "(", ")", "=", ";", ","}

IsSpace(t) == t = " "

IsWord(t) == t \notin NonWord

\* str.lower() on the vocabulary of the model.
Lower(w) ==
  CASE w = "SUBROUTINE" -> "subroutine"
    [] w = "FUNCTION"   -> "function"
    [] w = "MODULE"     -> "module"
    [] w = "CALL"       -> "call"
    [] w = "END"        -> "end"
    [] w = "A"          -> "a"
    [] w = "B"          -> "b"
    [] w = "N"          -> "n"
    [] OTHER            -> w

\* Lexicographic order of the (lower-case) names of the vocabulary.
NameOrder == <<"a", "b", "c", "m", "n">>

\* The first position >= i of line that holds no whitespace (Len+1 if none): \s*
RECURSIVE SkipWs(_, _)
SkipWs(line, i) ==
  IF i <= Len(line) /\ IsSpace(line[i]) THEN SkipWs(line, i + 1) ELSE i

NoMatch == [matched |-> FALSE]

\* ^\s*(?:recursive\s+)?(subroutine|function)\s+(\w+), re.IGNORECASE, anchored
\* at the start of the line.  group kind is the keyword, group name the identifier.
RoutinePatternMatch(line) ==
  LET i0 == SkipWs(line, 1)
      rec == /\ i0 + 1 <= Len(line)
             /\ Lower(line[i0]) = "recursive"
             /\ IsSpace(line[i0 + 1])
      i1 == IF rec THEN SkipWs(line, i0 + 1) ELSE i0
      j  == SkipWs(line, i1 + 1)
  IN IF /\ i1 + 1 <= Len(line)
        /\ Lower(line[i1]) \in {"subroutine", "function"}
        /\ IsSpace(line[i1 + 1])
        /\ j <= Len(line)
        /\ IsWord(line[j])
     THEN [matched |-> TRUE, kind |-> line[i1], name |-> line[j]]
     ELSE NoMatch

\* routine_start of generate_fortran_matrix: the same pattern, one group.
RoutineStartMatch(line) == RoutinePatternMatch(line)

\* ^\s*end\s+(?:subroutine|function), re.IGNORECASE
RoutineEndMatch(line) ==
  LET i0 == SkipWs(line, 1)
      j  == SkipWs(line, i0 + 1)
  IN /\ i0 + 1 <= Len(line)
     /\ Lower(line[i0]) = "end"
     /\ IsSpace(line[i0 + 1])
     /\ j <= Len(line)
     /\ Lower(line[j]) \in {"subroutine", "function"}

\* ^\s*module\s+(\w+), re.IGNORECASE
ModulePatternMatch(line) ==
  LET i0 == SkipWs(line, 1)
      j  == SkipWs(line, i0 + 1)
  IN IF /\ i0 + 1 <= Len(line)
        /\ Lower(line[i0]) = "module"
        /\ IsSpace(line[i0 + 1])
        /\ j <= Len(line)
        /\ IsWord(line[j])
     THEN [matched |-> TRUE, name |-> line[j]]
     ELSE NoMatch

\* A word token whose text ends in "call" (re.IGNORECASE); in the vocabulary
\* these are the spellings of the keyword itself.
EndsWithCall(t) == Lower(t) = "call"

\* call_pattern.findall(line) for (?:call\s+|(?<=\W))(\w+)\s*\( : the captured
\* identifiers, left to right, matches not overlapping.  At a word token the
\* first alternative needs "call", whitespace, an identifier, optional
\* whitespace and "("; the second needs a non-word character right before the
\* word (so never the first character of the line), optional whitespace and "(".
RECURSIVE FindCallsFrom(_, _)
FindCallsFrom(line, i) ==
  IF i > Len(line) THEN <<>>
  ELSE IF ~IsWord(line[i]) THEN FindCallsFrom(line, i + 1)
  ELSE
    LET p == SkipWs(line, i + 1)
        q == SkipWs(line, p + 1)
        alt1 == /\ EndsWithCall(line[i])
                /\ i + 1 <= Len(line)
                /\ IsSpace(line[i + 1])
                /\ p <= Len(line)
                /\ IsWord(line[p])
                /\ q <= Len(line)
                /\ line[q] = "("
        alt2 == /\ i > 1
                /\ ~IsWord(line[i - 1])
                /\ p <= Len(line)
                /\ line[p] = "("
    IN IF alt1 THEN <<line[p]>> \o FindCallsFrom(line, q + 1)
       ELSE IF alt2 THEN <<line[i]>> \o FindCallsFrom(line, p + 1)
       ELSE FindCallsFrom(line, i + 1)

FindCalls(line) == FindCallsFrom(line, 1)


(***************************************************************************)
(* The logical lines the model reads (after the continuation join of       *)
(* re.sub(r'&\s*\n\s*', '', content) and splitlines()).                    *)
(***************************************************************************)
LineSubA     == <<"subroutine", " ", "a">>
LineSubB     == <<"SUBROUTINE", " ", "B", "(", "x", ")">>
LineFunBCallA == <<"recursive", " ", "function", " ", "b", "(", "x", ")", ";",
                   " ", "y", "=", "a", "(", "x", ")">>
LineCallB    == <<" ", "call", " ", "b", "(", "c", "(", "x", ")", ")">>
LineRefA     == <<" ", "y", " ", "=", " ", "A", " ", "(", "x", ")">>
LineCallBNoArgs == <<" ", "CALL", " ", "b">>
LineEnd      == <<"end", " ", "subroutine", " ", "a">>
LineModuleM  == <<"module", " ", "m">>
LineModuleN  == <<" ", "MODULE", " ", "N">>
LineEndModule == <<"end", " ", "module", " ", "m">>

\* Lines read by the matrix scanner in the model.
ScanLines == {LineSubA, LineSubB, LineFunBCallA, LineCallB, LineRefA,
              LineCallBNoArgs, LineEnd}

\* Lines read by the inventory scanner in the model.
InvLines == {LineSubA, LineFunBCallA, LineModuleM, LineModuleN, LineEndModule}

\* os.listdir(directory): the listing is a prefix of this sequence of names.
\* A name is its stem and its suffix.
Listing == <<[stem |-> "alpha", ext |-> ".f90"],
             [stem |-> "notes", ext |-> ".F90"],
             [stem |-> "beta", ext |-> ".f90"],
             [stem |-> "readme", ext |-> ".txt"]>>

\* filename.endswith(".f90")
IsMatrixSource(name) == name.ext = ".f90"

\* filename.endswith((".f90", ".F90", ".f95"))
IsInventorySource(name) == name.ext \in {".f90", ".F90", ".f95"}

(***************************************************************************)
(* State.                                                                  *)
(***************************************************************************)
VARIABLES
  pc,               \* position of the running function
  dir_exists,       \* whether the directory argument names a directory
  directory,        \* the files listed so far: [name, lines read so far]
  all_routines,     \* {routine_name: [list_of_calls]}
  current_routine,  \* <<>> is None, <<name>> a routine
  matrix,           \* the DataFrame generate_fortran_matrix returns
  inventory,        \* the list of records of scan_fortran_directory
  current_module,   \* the module cursor of scan_fortran_directory
  sorted_matrix,    \* the DataFrame reorder_by_sum returns
  applications,     \* how many times reorder_by_sum has been applied
  cli,              \* the flags given on the command line of main
  written,          \* the files main has written
  printed           \* the messages printed

vars == <<pc, dir_exists, directory, all_routines, current_routine, matrix,
          inventory, current_module, sorted_matrix, applications, cli,
          written, printed>>

\* the variables of reorder_by_sum and main
driver_vars == <<sorted_matrix, applications, cli, written, printed>>

\* the variables of scan_fortran_directory
inventory_vars == <<inventory, current_module>>

NoFlags == [no_matrix |-> FALSE, no_inventory |-> FALSE]

None == <<>>

NoFrame == [index |-> <<>>, columns |-> <<>>, data |-> <<>>]

\* The lines of the file being read.
CurrentLines == directory[Len(directory)].lines

RECURSIVE SumLens(_)
SumLens(fs) == IF fs = <<>> THEN 0 ELSE Len(Head(fs).lines) + SumLens(Tail(fs))

AppendLine(dir, line) ==
  [dir EXCEPT ![Len(dir)].lines = Append(@, line)]

(***************************************************************************)
(* generate_fortran_matrix: the scan of one line.                          *)
(***************************************************************************)
\* the for-loop over found_calls: lower each, skip the routine's own name.
RECURSIVE RecordCalls(_, _, _)
RecordCalls(ar, cur, calls) ==
  IF calls = <<>> THEN ar
  ELSE LET call == Lower(Head(calls))
           ar1 == IF call # cur THEN [ar EXCEPT ![cur] = Append(@, call)] ELSE ar
       IN RecordCalls(ar1, cur, Tail(calls))

\* all_routines[current_routine] = []
ResetCallees(ar, name) ==
  [n \in DOMAIN ar \cup {name} |-> IF n = name THEN <<>> ELSE ar[n]]

\* Mutant of CursorAfter: a routine-end line does not clear the cursor.
CursorAfterNoEnd(cur, line) ==
  LET sm == RoutineStartMatch(line)
  IN IF sm.matched THEN <<Lower(sm.name)>> ELSE cur

\* the cursor after the routine_start / routine_end tests of a line
CursorAfter(cur, line) ==
  LET sm == RoutineStartMatch(line)
  IN IF sm.matched THEN <<Lower(sm.name)>>
     ELSE IF RoutineEndMatch(line) THEN None
     ELSE cur

\* the body of "for line in lines": the mapping after the line
RoutinesAfter(ar, cur, line) ==
  LET sm == RoutineStartMatch(line)
      ar1 == IF sm.matched THEN ResetCallees(ar, Lower(sm.name)) ELSE ar
      cur1 == CursorAfter(cur, line)
  IN IF cur1 # None THEN RecordCalls(ar1, cur1[1], FindCalls(line)) ELSE ar1

(***************************************************************************)
(* generate_fortran_matrix: steps 3 to 5.                                  *)
(***************************************************************************)
\* sorted(list(S)) for a set of names
RECURSIVE SortedFrom(_, _)
SortedFrom(S, i) ==
  IF i > Len(NameOrder) THEN <<>>
  ELSE (IF NameOrder[i] \in S THEN <<NameOrder[i]>> ELSE <<>>) \o SortedFrom(S, i + 1)

Sorted(S) == SortedFrom(S, 1)

Range(s) == {s[i] : i \in DOMAIN s}

\* Mutant of Universe: called names are not filtered out of the universe.
UniverseWithCallees(ar) ==
  Sorted(DOMAIN ar \cup UNION {Range(ar[n]) : n \in DOMAIN ar})

\* universe = sorted(list(all_routines.keys()))
Universe(ar) == Sorted(DOMAIN ar)

\* pd.DataFrame(0, index=universe, columns=universe), then matrix.at[callee,
\* caller] = 1 for every recorded callee that is in the universe.  data is keyed
\* <<row label, column label>>.
BuildMatrix(ar) ==
  LET universe == Universe(ar)
      U == Range(universe)
  IN [index |-> universe,
      columns |-> universe,
      data |-> [rc \in U \X U |->
                  IF rc[2] \in DOMAIN ar /\ rc[1] \in Range(ar[rc[2]])
                  THEN 1 ELSE 0]]

(***************************************************************************)
(* generate_fortran_matrix as a state machine.                             *)
(***************************************************************************)
Init ==
  /\ pc = "scan"
  /\ dir_exists \in BOOLEAN
  /\ directory = <<>>
  /\ all_routines = <<>>
  /\ current_routine = None
  /\ matrix = NoFrame
  /\ inventory = <<>>
  /\ current_module = "External"
  /\ sorted_matrix = NoFrame
  /\ applications = 0
  /\ cli = NoFlags
  /\ written = {}
  /\ printed = {}

\* os.listdir(directory) of a path that is no directory raises
\* FileNotFoundError, which generate_fortran_matrix does not catch
ListdirRaises ==
  /\ pc = "scan"
  /\ ~dir_exists
  /\ pc' = "raised"
  /\ UNCHANGED <<dir_exists, directory, all_routines, current_routine, matrix,
                 inventory_vars, driver_vars>>

NextName == Listing[Len(directory) + 1]

\* the file being read, if any
Reading(dir) == dir # <<>> /\ IsMatrixSource(dir[Len(dir)].name)

\* the next listed file ends in .f90: it is opened, current_routine = None
OpenFile ==
  /\ pc = "scan"
  /\ dir_exists
  /\ Len(directory) < Len(Listing)
  /\ IsMatrixSource(NextName)
  /\ directory' = Append(directory, [name |-> NextName, lines |-> <<>>])
  /\ current_routine' = None
  /\ UNCHANGED <<pc, dir_exists, all_routines, matrix, inventory_vars,
                 driver_vars>>

\* the next listed file has another suffix: it is not read
SkipFile ==
  /\ pc = "scan"
  /\ dir_exists
  /\ Len(directory) < Len(Listing)
  /\ ~IsMatrixSource(NextName)
  /\ directory' = Append(directory, [name |-> NextName, lines |-> <<>>])
  /\ UNCHANGED <<pc, dir_exists, all_routines, current_routine, matrix,
                 inventory_vars, driver_vars>>

\* one iteration of "for line in lines"
ProcessLine ==
  /\ pc = "scan"
  /\ dir_exists
  /\ Reading(directory)
  /\ SumLens(directory) < MaxLines
  /\ \E line \in ScanLines :
       /\ directory' = AppendLine(directory, line)
       /\ all_routines' = RoutinesAfter(all_routines, current_routine, line)
       /\ current_routine' = CursorAfter(current_routine, line)
  /\ UNCHANGED <<pc, dir_exists, matrix, inventory_vars, driver_vars>>

\* the listing is exhausted: build and fill the matrix, return it
Assemble ==
  /\ pc = "scan"
  /\ dir_exists
  /\ matrix' = BuildMatrix(all_routines)
  /\ pc' = "done"
  /\ UNCHANGED <<dir_exists, directory, all_routines, current_routine,
                 inventory_vars, driver_vars>>

Next == ListdirRaises \/ OpenFile \/ SkipFile \/ ProcessLine \/ Assemble

Spec == Init /\ [][Next]_vars


(***************************************************************************)
(* What the scanned text says, read off the files with no cursor.          *)
(***************************************************************************)
IsPrefix(s, t) == Len(s) <= Len(t) /\ SubSeq(t, 1, Len(s)) = s

IsSuffix(s, t) == Len(s) <= Len(t) /\ SubSeq(t, Len(t) - Len(s) + 1, Len(t)) = s

IsStart(line) == RoutineStartMatch(line).matched

StartName(line) == Lower(RoutineStartMatch(line).name)

\* the files generate_fortran_matrix has read
ScannedFiles == {f \in DOMAIN directory : IsMatrixSource(directory[f].name)}

\* the names declared by a routine-start line of a scanned file
DeclaredNames ==
  UNION {{StartName(directory[f].lines[k]) :
            k \in {k \in 1..Len(directory[f].lines) :
                     IsStart(directory[f].lines[k])}} :
         f \in ScannedFiles}

\* the call-like tokens of a line, canonicalized
CallTokens(line) == {Lower(t) : t \in Range(FindCalls(line))}

\* line k of lines is in the body opened by the routine-start line s
InBodyOf(lines, s, k) ==
  /\ s <= k
  /\ k <= Len(lines)
  /\ IsStart(lines[s])
  /\ \A j \in (s + 1)..k : ~IsStart(lines[j]) /\ ~RoutineEndMatch(lines[j])

\* the body of a declaration of caller holds a call-like token naming callee
BodyCalls(caller, callee) ==
  \E f \in ScannedFiles :
    LET lines == directory[f].lines
    IN \E s \in 1..Len(lines), k \in 1..Len(lines) :
         /\ InBodyOf(lines, s, k)
         /\ StartName(lines[s]) = caller
         /\ callee \in CallTokens(lines[k])

\* the routine opened by the most recent routine-start line of lines that no
\* routine-end line follows
OpenRoutine(lines) ==
  LET S == {s \in 1..Len(lines) : IsStart(lines[s])}
  IN IF S = {} THEN None
     ELSE LET s == CHOOSE x \in S : \A y \in S : y <= x
          IN IF \E j \in (s + 1)..Len(lines) : RoutineEndMatch(lines[j])
             THEN None
             ELSE <<StartName(lines[s])>>

Cell(callee, caller) == matrix.data[<<callee, caller>>]

\* the identifiers of a line that follow the keyword call and whitespace
CallStatementTargets(line) ==
  {Lower(line[SkipWs(line, i + 1)]) :
     i \in {i \in 1..Len(line) :
              /\ i + 1 <= Len(line)
              /\ Lower(line[i]) = "call"
              /\ IsSpace(line[i + 1])
              /\ SkipWs(line, i + 1) <= Len(line)
              /\ IsWord(line[SkipWs(line, i + 1)])}}

\* a step that read a line
ReadsLine == SumLens(directory') # SumLens(directory)

LastLine(dir) == dir[Len(dir)].lines[Len(dir[Len(dir)].lines)]

(***************************************************************************)
(* Claims about generate_fortran_matrix.                                   *)
(***************************************************************************)

\* C1: in the returned matrix no undeclared name is a label, and for every
\* two distinct declared routines cell (row callee, column caller) is 1 if
\* and only if a body of caller holds a call-like token naming callee.
C1_CellIffBodyCalls ==
  pc = "done" =>
    /\ Range(matrix.index) \subseteq DeclaredNames
    /\ Range(matrix.columns) \subseteq DeclaredNames
    /\ \A callee \in DeclaredNames, caller \in DeclaredNames :
         callee # caller =>
           Cell(callee, caller) = IF BodyCalls(caller, callee) THEN 1 ELSE 0

\* C2: the returned matrix is square and its row labels and its column
\* labels are, without repetition, the declared routine names.
C2_SquareOverUniverse ==
  pc = "done" =>
    /\ Len(matrix.index) = Len(matrix.columns)
    /\ Range(matrix.index) = DeclaredNames
    /\ Range(matrix.columns) = DeclaredNames
    /\ Cardinality(DeclaredNames) = Len(matrix.index)
    /\ DOMAIN matrix.data = DeclaredNames \X DeclaredNames
    /\ \A rc \in DOMAIN matrix.data : matrix.data[rc] \in {0, 1}

\* C2 witness: a returned matrix over two declared routines, one file not read.
C2_Witness ==
  /\ pc = "done"
  /\ DeclaredNames = {"a", "b"}
  /\ Len(directory) = Len(Listing)
  /\ \A f \in ScannedFiles : directory[f].lines # <<>>

\* C3: no routine is in its own callee list, the diagonal of the returned
\* matrix is 0, and two declared routines whose bodies call each other have
\* both cells 1.
C3_NoSelfLoopMutualEdges ==
  /\ \A r \in DOMAIN all_routines : r \notin Range(all_routines[r])
  /\ pc = "done" =>
       /\ \A r \in DeclaredNames : Cell(r, r) = 0
       /\ \A x \in DeclaredNames, y \in DeclaredNames :
            (x # y /\ BodyCalls(x, y) /\ BodyCalls(y, x)) =>
              (Cell(y, x) = 1 /\ Cell(x, y) = 1)

\* C8: a routine-start line that names a routine already in the mapping keeps
\* the callees recorded for that name so far.
C8_RedeclarationKeepsCallees ==
  [][(ReadsLine /\ IsStart(LastLine(directory'))
        /\ StartName(LastLine(directory')) \in DOMAIN all_routines) =>
       IsPrefix(all_routines[StartName(LastLine(directory'))],
                all_routines'[StartName(LastLine(directory'))])]_vars

\* C9: while a routine is open, every identifier that follows the keyword
\* call and whitespace, other than the routine's own name, is recorded as a
\* callee of the open routine, with or without an opening parenthesis.
C9_CallWithoutParenthesisRecorded ==
  [][(ReadsLine /\ current_routine' # None) =>
       \A t \in CallStatementTargets(LastLine(directory')) :
         t # current_routine'[1] => t \in Range(all_routines'[current_routine'[1]])]_vars

\* the call-like tokens of a line that are recorded for routine cur
RECURSIVE NotSelf(_, _)
NotSelf(calls, cur) ==
  IF calls = <<>> THEN <<>>
  ELSE (IF Lower(Head(calls)) # cur THEN <<Lower(Head(calls))>> ELSE <<>>)
         \o NotSelf(Tail(calls), cur)

\* C10: while a file is read the cursor is the routine opened by the most
\* recent routine-start line of that file with no routine-end line after it
\* (unset when there is none); the call-like tokens of a line go to the end
\* of that routine's list and to no other list, and nothing is recorded
\* while the cursor is unset.
C10_TokensGoToOpenRoutine ==
  [][/\ Reading(directory') => current_routine' = OpenRoutine(CurrentLines')
     /\ ReadsLine =>
          LET line == LastLine(directory')
              cur == OpenRoutine(CurrentLines')
          IN IF cur = None THEN all_routines' = all_routines
             ELSE /\ DOMAIN all_routines' = DOMAIN all_routines \cup {cur[1]}
                  /\ \A r \in DOMAIN all_routines \ {cur[1]} :
                       all_routines'[r] = all_routines[r]
                  /\ IsSuffix(NotSelf(FindCalls(line), cur[1]),
                              all_routines'[cur[1]])
                  /\ ~IsStart(line) =>
                       all_routines'[cur[1]] =
                         all_routines[cur[1]] \o NotSelf(FindCalls(line), cur[1])
    ]_vars

\* C10 witness: b was opened while a was open, the start line of b and a later
\* line were scanned for b, and a line after the routine-end recorded nothing.
C10_Witness ==
  /\ pc = "scan"
  /\ Len(directory) = 1
  /\ CurrentLines = <<LineSubA, LineFunBCallA, LineEnd, LineCallB>>
  /\ current_routine = None
  /\ all_routines = [n \in {"a", "b"} |-> IF n = "b" THEN <<"a">> ELSE <<>>]


(***************************************************************************)
(* scan_fortran_directory (check_object.py).                               *)
(***************************************************************************)
\* the module cursor after the module_pattern test of a line
ModuleAfter(mod, line) ==
  LET mm == ModulePatternMatch(line)
  IN IF mm.matched THEN Lower(mm.name) ELSE mod

\* the inventory after a line: one record for a routine_pattern match
InventoryAfter(inv, mod, line) ==
  LET rm == RoutinePatternMatch(line)
  IN IF rm.matched
     THEN Append(inv, [obj_name |-> Lower(rm.name),
                       module_name |-> ModuleAfter(mod, line),
                       type |-> Lower(rm.kind)])
     ELSE inv

InitInventory ==
  /\ pc = "inventory"
  /\ dir_exists \in BOOLEAN
  /\ directory = <<>>
  /\ all_routines = <<>>
  /\ current_routine = None
  /\ matrix = NoFrame
  /\ inventory = <<>>
  /\ current_module = "External"
  /\ sorted_matrix = NoFrame
  /\ applications = 0
  /\ cli = NoFlags
  /\ written = {}
  /\ printed = {}

\* the file being read by scan_fortran_directory, if any
ReadingInventory(dir) == dir # <<>> /\ IsInventorySource(dir[Len(dir)].name)

\* if not os.path.exists(directory): print the error, return pd.DataFrame()
InvMissingDirectory ==
  /\ pc = "inventory"
  /\ ~dir_exists
  /\ printed' = printed \cup {"Error: Directory does not exist."}
  /\ pc' = "done"
  /\ UNCHANGED <<dir_exists, directory, all_routines, current_routine, matrix,
                 inventory_vars, sorted_matrix, applications, cli, written>>

\* Mutant of InvOpenFile: the module cursor is carried over from the last file.
InvOpenFileKeepModule ==
  /\ pc = "inventory"
  /\ dir_exists
  /\ Len(directory) < Len(Listing)
  /\ IsInventorySource(NextName)
  /\ directory' = Append(directory, [name |-> NextName, lines |-> <<>>])
  /\ UNCHANGED <<pc, dir_exists, all_routines, current_routine, matrix,
                 inventory, current_module, driver_vars>>

\* the next listed file ends in .f90, .F90 or .f95: it is opened,
\* current_module = "External"
InvOpenFile ==
  /\ pc = "inventory"
  /\ dir_exists
  /\ Len(directory) < Len(Listing)
  /\ IsInventorySource(NextName)
  /\ directory' = Append(directory, [name |-> NextName, lines |-> <<>>])
  /\ current_module' = "External"
  /\ UNCHANGED <<pc, dir_exists, all_routines, current_routine, matrix,
                 inventory, driver_vars>>

\* the next listed file has another suffix: it is not read
InvSkipFile ==
  /\ pc = "inventory"
  /\ dir_exists
  /\ Len(directory) < Len(Listing)
  /\ ~IsInventorySource(NextName)
  /\ directory' = Append(directory, [name |-> NextName, lines |-> <<>>])
  /\ UNCHANGED <<pc, dir_exists, all_routines, current_routine, matrix,
                 inventory_vars, driver_vars>>

\* one iteration of "for line in lines"
InvProcessLine ==
  /\ pc = "inventory"
  /\ dir_exists
  /\ ReadingInventory(directory)
  /\ SumLens(directory) < MaxInvLines
  /\ \E line \in InvLines :
       /\ directory' = AppendLine(directory, line)
       /\ current_module' = ModuleAfter(current_module, line)
       /\ inventory' = InventoryAfter(inventory, current_module, line)
  /\ UNCHANGED <<pc, dir_exists, all_routines, current_routine, matrix,
                 driver_vars>>

\* the listing is exhausted: return pd.DataFrame(inventory)
InvReturn ==
  /\ pc = "inventory"
  /\ dir_exists
  /\ pc' = "done"
  /\ UNCHANGED <<dir_exists, directory, all_routines, current_routine, matrix,
                 inventory_vars, driver_vars>>

NextInventory ==
  InvMissingDirectory \/ InvOpenFile \/ InvSkipFile \/ InvProcessLine \/ InvReturn

SpecInventory == InitInventory /\ [][NextInventory]_vars

(***************************************************************************)
(* Claims about scan_fortran_directory.                                    *)
(***************************************************************************)
\* the files scan_fortran_directory has read
InventoryFiles == {f \in DOMAIN directory : IsInventorySource(directory[f].name)}

\* the routine-start lines read, as <<file, line number>>
StartPlaces ==
  UNION {{<<f, k>> : k \in {k \in 1..Len(directory[f].lines) :
                              RoutinePatternMatch(directory[f].lines[k]).matched}} :
         f \in InventoryFiles}

\* place x is read before place y, or is y
NotAfter(x, y) == x[1] < y[1] \/ (x[1] = y[1] /\ x[2] <= y[2])

\* the identifier of the most recent module-start line before line k of lines,
\* "External" when there is none
ModuleAt(lines, k) ==
  LET M == {j \in 1..(k - 1) : ModulePatternMatch(lines[j]).matched}
  IN IF M = {} THEN "External"
     ELSE Lower(ModulePatternMatch(lines[CHOOSE x \in M : \A y \in M : y <= x]).name)

\* C7: the inventory holds one record per routine-start line read, in the
\* order read, with the routine's name and kind and, as module_name, the
\* identifier of the most recent module-start line read earlier in the same
\* file, "External" when that file has had none; while a file is read the
\* cursor is the module of that file alone.
C7_OneRecordPerRoutineStart ==
  /\ Len(inventory) = Cardinality(StartPlaces)
  /\ \A x \in StartPlaces :
       LET lines == directory[x[1]].lines
           rm == RoutinePatternMatch(lines[x[2]])
       IN inventory[Cardinality({y \in StartPlaces : NotAfter(y, x)})] =
            [obj_name |-> Lower(rm.name),
             module_name |-> ModuleAt(lines, x[2]),
             type |-> Lower(rm.kind)]
  /\ (pc = "inventory" /\ ReadingInventory(directory)) =>
       current_module = ModuleAt(CurrentLines, Len(CurrentLines) + 1)

\* C7 witness: a routine of module m in one file, then a routine of another
\* file that has no module-start line.
C7_Witness ==
  /\ pc = "done"
  /\ inventory = <<[obj_name |-> "a", module_name |-> "m", type |-> "subroutine"],
                   [obj_name |-> "b", module_name |-> "External", type |-> "function"]>>
  /\ directory[1].lines = <<LineModuleM, LineSubA>>
  /\ directory[2].lines = <<LineFunBCallA>>


(***************************************************************************)
(* reorder_by_sum (sort_matrix.py).                                        *)
(***************************************************************************)
RECURSIVE SumOver(_, _)
SumOver(f, labels) ==
  IF labels = <<>> THEN 0 ELSE f[Head(labels)] + SumOver(f, Tail(labels))

\* df.sum(axis=1): the sum of each row over the columns
RowSums(df) ==
  [r \in Range(df.index) |->
     SumOver([c \in Range(df.columns) |-> df.data[<<r, c>>]], df.columns)]

\* df.sum(axis=0): the sum of each column over the rows
ColSums(df) ==
  [c \in Range(df.columns) |->
     SumOver([r \in Range(df.index) |-> df.data[<<r, c>>]], df.index)]

\* the orders of the labels of a sequence
Orders(labels) ==
  {p \in [1..Len(labels) -> Range(labels)] :
     \A i, j \in 1..Len(labels) : i # j => p[i] # p[j]}

\* sums.sort_values(ascending=False).index: the labels from the largest sum
\* to the smallest.  sort_values is called with its default kind='quicksort',
\* which pandas and numpy document as not stable: the order of labels with
\* equal sums is whatever the build's sort produces.
SortValuesDescending(labels, sums) ==
  {p \in Orders(labels) :
     \A i, j \in 1..Len(labels) : i < j => sums[p[i]] >= sums[p[j]]}

\* the frames reorder_by_sum(df) can return: rows by row sum, then columns by
\* column sum of the row-reordered frame
ReorderBySum(df) ==
  {[index |-> rows, columns |-> cols, data |-> df.data] :
     rows \in SortValuesDescending(df.index, RowSums(df)),
     cols \in SortValuesDescending(df.columns, ColSums(df))}

\* labels of the frames the model reorders
SortLabels == {"a", "b", "c"}

\* the square 0/1 frames over sorted label sets
InputFrames ==
  UNION {{[index |-> Sorted(S), columns |-> Sorted(S), data |-> d] :
            d \in [S \X S -> {0, 1}]} :
         S \in SUBSET SortLabels}

InitSort ==
  /\ pc = "reorder"
  /\ dir_exists = TRUE
  /\ directory = <<>>
  /\ all_routines = <<>>
  /\ current_routine = None
  /\ matrix \in InputFrames
  /\ inventory = <<>>
  /\ current_module = "External"
  /\ sorted_matrix = NoFrame
  /\ applications = 0
  /\ cli = NoFlags
  /\ written = {}
  /\ printed = {}

\* reorder_by_sum applied to the input, then to what it returned: matrix is
\* the frame passed in, sorted_matrix the frame returned
Reorder ==
  /\ pc = "reorder"
  /\ applications < MaxApplications
  /\ matrix' = IF applications = 0 THEN matrix ELSE sorted_matrix
  /\ sorted_matrix' \in ReorderBySum(matrix')
  /\ applications' = applications + 1
  /\ UNCHANGED <<pc, dir_exists, directory, all_routines, current_routine,
                 inventory_vars, cli, written, printed>>

NextSort == Reorder

SpecSort == InitSort /\ [][NextSort]_vars

(***************************************************************************)
(* Claims about reorder_by_sum.                                            *)
(***************************************************************************)
\* position of a label in a sequence without repetition
PositionIn(labels, x) == CHOOSE i \in 1..Len(labels) : labels[i] = x

\* out is labels in descending order of sums, labels of equal sums in the
\* order they have in labels
IsStableDescending(out, labels, sums) ==
  /\ Len(out) = Len(labels)
  /\ Range(out) = Range(labels)
  /\ \A i, j \in 1..Len(out) :
       i < j =>
         \/ sums[out[i]] > sums[out[j]]
         \/ /\ sums[out[i]] = sums[out[j]]
            /\ PositionIn(labels, out[i]) < PositionIn(labels, out[j])

\* C4: the frame returned has its rows in descending order of row sum and
\* its columns in descending order of column sum, labels of equal sums in
\* the order of the frame passed in, and the same cells.
C4_StableDescendingOrder ==
  applications >= 1 =>
    /\ IsStableDescending(sorted_matrix.index, matrix.index, RowSums(matrix))
    /\ IsStableDescending(sorted_matrix.columns, matrix.columns, ColSums(matrix))
    /\ sorted_matrix.data = matrix.data

\* C5: reorder_by_sum applied to a frame it returned returns the same row
\* order and the same column order.
C5_Idempotent ==
  applications >= 2 =>
    /\ sorted_matrix.index = matrix.index
    /\ sorted_matrix.columns = matrix.columns


(***************************************************************************)
(* The two scanners as functions of a whole directory, as main calls them. *)
(***************************************************************************)
RECURSIVE ScanFileLines(_, _, _)
ScanFileLines(ar, cur, lines) ==
  IF lines = <<>> THEN ar
  ELSE ScanFileLines(RoutinesAfter(ar, cur, Head(lines)),
                     CursorAfter(cur, Head(lines)), Tail(lines))

RECURSIVE ScanFiles(_, _)
ScanFiles(ar, files) ==
  IF files = <<>> THEN ar
  ELSE ScanFiles(IF IsMatrixSource(Head(files).name)
                 THEN ScanFileLines(ar, None, Head(files).lines)
                 ELSE ar,
                 Tail(files))

\* generate_fortran_matrix(directory) for a directory that exists
GenerateFortranMatrix(files) == BuildMatrix(ScanFiles(<<>>, files))

RECURSIVE InventoryFileLines(_, _, _)
InventoryFileLines(inv, mod, lines) ==
  IF lines = <<>> THEN inv
  ELSE InventoryFileLines(InventoryAfter(inv, mod, Head(lines)),
                          ModuleAfter(mod, Head(lines)), Tail(lines))

RECURSIVE InventoryFiles_(_, _)
InventoryFiles_(inv, files) ==
  IF files = <<>> THEN inv
  ELSE InventoryFiles_(IF IsInventorySource(Head(files).name)
                       THEN InventoryFileLines(inv, "External", Head(files).lines)
                       ELSE inv,
                       Tail(files))

\* scan_fortran_directory(directory): the records and what it prints
ScanFortranDirectory(exists, files) ==
  IF ~exists
  THEN [inventory |-> <<>>, printed |-> {"Error: Directory does not exist."}]
  ELSE [inventory |-> InventoryFiles_(<<>>, files), printed |-> {}]

(***************************************************************************)
(* main (main.py).                                                         *)
(***************************************************************************)
\* default= of --no-matrix and of --no-inventory
NoMatrixDefault == TRUE
NoInventoryDefault == FALSE

\* action="store_true": True when the flag is given, else the default
StoreTrue(default, given) == IF given THEN TRUE ELSE default

\* args.no_matrix, args.no_inventory
ArgsNoMatrix == StoreTrue(NoMatrixDefault, cli.no_matrix)
ArgsNoInventory == StoreTrue(NoInventoryDefault, cli.no_inventory)

\* sorted_matrix.insert(0, 'total_connectivity', sorted_matrix.sum(axis=1))
InsertConnectivity(df) ==
  LET sums == RowSums(df)
  IN [index |-> df.index,
      columns |-> <<"total_connectivity">> \o df.columns,
      data |-> [rc \in Range(df.index) \X ({"total_connectivity"} \cup Range(df.columns)) |->
                  IF rc[2] = "total_connectivity" THEN sums[rc[1]] ELSE df.data[rc]]]

\* sorted_matrix.join(module_info, how='left'): per row label the module and
\* type of every inventory record of that name, NaN when there is none
RECURSIVE LeftJoin(_, _)
LeftJoin(labels, inv) ==
  IF labels = <<>> THEN <<>>
  ELSE LET r == Head(labels)
           ms == SelectSeq(inv, LAMBDA rec : rec.obj_name = r)
       IN (IF ms = <<>>
           THEN <<[index |-> r, module_name |-> "NaN", type |-> "NaN"]>>
           ELSE [i \in 1..Len(ms) |->
                   [index |-> r, module_name |-> ms[i].module_name,
                    type |-> ms[i].type]])
          \o LeftJoin(Tail(labels), inv)

\* lines of the files of the directory main is run on
MainLines == {LineSubA, LineFunBCallA, LineModuleM}

FileContents == UNION {[1..k -> MainLines] : k \in 0..MaxMainLines}

\* the directories main is run on: the listed files, each with its lines
\* (the file that neither scanner reads is left empty)
MainDirectories ==
  {[i \in 1..Len(Listing) |->
      [name |-> Listing[i],
       lines |-> IF IsInventorySource(Listing[i]) THEN c[i] ELSE <<>>]] :
     c \in [1..Len(Listing) -> FileContents]}

InitMain ==
  /\ pc = "main"
  /\ dir_exists \in BOOLEAN
  /\ directory \in IF dir_exists THEN MainDirectories ELSE {<<>>}
  /\ all_routines = <<>>
  /\ current_routine = None
  /\ matrix = NoFrame
  /\ inventory = <<>>
  /\ current_module = "External"
  /\ sorted_matrix = NoFrame
  /\ applications = 0
  /\ cli \in [no_matrix : BOOLEAN, no_inventory : BOOLEAN]
  /\ written = {}
  /\ printed = {}

\* matrix = adjacency_matrix.generate_fortran_matrix(args.dir)
MainGenerate ==
  /\ pc = "main"
  /\ dir_exists
  /\ matrix' = GenerateFortranMatrix(directory)
  /\ pc' = "main_reorder"
  /\ UNCHANGED <<dir_exists, directory, all_routines, current_routine,
                 inventory_vars, driver_vars>>

\* the call raises FileNotFoundError (os.listdir); main has no handler, the
\* run ends with the traceback
MainGenerateRaises ==
  /\ pc = "main"
  /\ ~dir_exists
  /\ pc' = "raised"
  /\ UNCHANGED <<dir_exists, directory, all_routines, current_routine, matrix,
                 inventory_vars, driver_vars>>

\* reorder_by_sum, the total_connectivity column, the matrix file
MainReorder ==
  /\ pc = "main_reorder"
  /\ \E df \in ReorderBySum(matrix) :
       sorted_matrix' = InsertConnectivity(df)
  /\ applications' = applications + 1
  /\ written' = IF ~ArgsNoMatrix
                THEN written \cup {[file |-> "output_matrix", content |-> sorted_matrix']}
                ELSE written
  /\ printed' = printed \cup {"Append adjacency matrix with connectivity"}
                  \cup (IF ~ArgsNoMatrix THEN {"Adjacency matrix saved"} ELSE {})
  /\ pc' = "main_inventory"
  /\ UNCHANGED <<dir_exists, directory, all_routines, current_routine, matrix,
                 inventory_vars, cli>>

\* scan_fortran_directory, the inventory file or the message
MainInventory ==
  /\ pc = "main_inventory"
  /\ LET r == ScanFortranDirectory(dir_exists, directory)
     IN /\ inventory' = r.inventory
        /\ written' = IF r.inventory # <<>> /\ ~ArgsNoInventory
                      THEN written \cup {[file |-> "output_inventory",
                                          content |-> r.inventory]}
                      ELSE written
        /\ printed' = printed \cup r.printed \cup
                        (IF r.inventory = <<>>
                         THEN {"No routines found for inventory."}
                         ELSE IF ~ArgsNoInventory
                         THEN {"Routine inventory saved"} ELSE {})
  /\ pc' = "main_extend"
  /\ UNCHANGED <<dir_exists, directory, all_routines, current_routine, matrix,
                 current_module, sorted_matrix, applications, cli>>

\* the matrix joined with module and type, written when there is an inventory
MainExtend ==
  /\ pc = "main_extend"
  /\ written' = IF inventory # <<>>
                THEN written \cup {[file |-> "extended_output_matrix",
                                    content |-> LeftJoin(sorted_matrix.index, inventory)]}
                ELSE written
  /\ printed' = IF inventory # <<>>
                THEN printed \cup {"Extended adjacency matrix saved"}
                ELSE printed
  /\ pc' = "done"
  /\ UNCHANGED <<dir_exists, directory, all_routines, current_routine, matrix,
                 inventory_vars, sorted_matrix, applications, cli>>

NextMain ==
  MainGenerate \/ MainGenerateRaises \/ MainReorder \/ MainInventory \/ MainExtend

SpecMain == InitMain /\ [][NextMain]_vars

(***************************************************************************)
(* Claims about main.                                                      *)
(***************************************************************************)
\* C6: a run of main on a directory that does not exist does not end in an
\* unhandled error; it reports the condition and ends with an empty matrix
\* and an empty inventory.
C6_MissingDirectoryEmptyResults ==
  ~dir_exists =>
    /\ pc # "raised"
    /\ pc = "done" =>
         /\ matrix.index = <<>>
         /\ inventory = <<>>
         /\ "Error: Directory does not exist." \in printed

\* the matrix file is among the files main has written
MatrixFileWritten == \E w \in written : w.file = "output_matrix"

\* C11: once main is past the reordering step, the reordered matrix with its
\* total_connectivity column has been written to the --output-matrix file
\* if and only if --no-matrix was not given on the command line.
C11_MatrixWrittenUnlessNoMatrix ==
  pc \in {"main_inventory", "main_extend", "done"} =>
    /\ MatrixFileWritten <=> ~cli.no_matrix
    /\ \A w \in written :
         w.file = "output_matrix" =>
           /\ w.content = sorted_matrix
           /\ Head(w.content.columns) = "total_connectivity"

=============================================================================
